---- MODULE Spec2Model ----
(***************************************************************************)
(* A model of SimpleGoBoard (assignment1/simple_board.py): the padded      *)
(* one-dimensional board, the three bookkeeping lists kept in self.store,  *)
(* the placement operation play_move, the copy-based query is_legal and    *)
(* the five-in-a-row scan checkWin / checkState, and the connectivity     *)
(* operations _block_of, _has_liberty, _detect_and_process_capture and     *)
(* is_eye.                                                                 *)
(*                                                                         *)
(* Python lists are modelled as sequences (1-based), the numpy board as a  *)
(* function on 0 .. maxpoint-1, like the array it models.  A call that     *)
(* raises ValueError leaves the object in the state the raise found it in; *)
(* the caller may catch the exception and go on using the board.           *)
(***************************************************************************)
EXTENDS Integers, Sequences, FiniteSets

VARIABLES
    size,    \* self.size
    board,   \* self.board : 0 .. maxpoint-1 -> cell value
    store,   \* self.store : 0 .. 2 -> list of points (0 scratch, BLACK, WHITE)
    current_player, \* self.current_player
    ko_recapture,   \* self.ko_recapture
    pts,     \* the points the caller passes to the board during this game
    op,      \* the name of the last call made on the board
    ret,     \* what that call returned ("ValueError" when it raised)
    out      \* what that call printed

vars == <<size, board, store, current_player, ko_recapture, pts, op, ret, out>>

-----------------------------------------------------------------------------
(* Constants of board_util, as simple_board.py uses them. *)

EMPTY == 0
BLACK == 1
WHITE == 2
BORDER == 3

\* assert 2 <= size <= MAXSIZE
MinSize == 2
\* the chain length every scan of checkWin starts with
ChainLen == 5

(* Bounds of the model. *)

\* largest board size constructed (stands for MAXSIZE)
MaxSize == 6
\* most entries the three lists of self.store hold together when a further
\* call is made on a board whose legality is queried
MaxStore == 5
\* most entries of self.store without a stone on the board (left by is_legal
\* and by scans that raised) when a further call is made
MaxDrift == 2

Colors == {BLACK, WHITE}
Sizes == MinSize .. MaxSize

-----------------------------------------------------------------------------
(* Geometry. *)

maxpoint(s) == s * s + 3 * (s + 1)

\* row_start with the "+ 1" that skips the border column left out
row_start_at_border(s, row) == row * (s + 1)

row_start(s, row) == row * (s + 1) + 1

\* coord_to_point(row, col, size)
pt(s, row, col) == row * (s + 1) + col

Points(s) == 0 .. maxpoint(s) - 1

\* board[start : start + n] = EMPTY
FillSlice(b, start, n) ==
    [p \in DOMAIN b |-> IF p \in start .. start + n - 1 THEN EMPTY ELSE b[p]]

\* _initialize_empty_points: for row in range(1, size + 1), from row on
RECURSIVE initialize_empty_points(_, _, _)
initialize_empty_points(b, s, row) ==
    IF row > s THEN b
    ELSE initialize_empty_points(FillSlice(b, row_start(s, row), s), s, row + 1)

\* reset: np.full(maxpoint, BORDER), then _initialize_empty_points
InitialBoard(s) ==
    initialize_empty_points([p \in Points(s) |-> BORDER], s, 1)

EmptyStore == [i \in 0 .. 2 |-> <<>>]

NS == size + 1

\* where1d(self.board == EMPTY)
get_empty_points(b) == {p \in DOMAIN b : b[p] = EMPTY}

-----------------------------------------------------------------------------
(* Python list operations. *)

Contains(seq, x) == \E i \in 1 .. Len(seq) : seq[i] = x

\* list.remove(x): drops the first occurrence of x (x is in seq)
Remove(seq, x) ==
    LET i == CHOOSE k \in 1 .. Len(seq) :
                 seq[k] = x /\ \A j \in 1 .. k - 1 : seq[j] # x
    IN  SubSeq(seq, 1, i - 1) \o SubSeq(seq, i + 1, Len(seq))

RECURSIVE Insert(_, _)
Insert(seq, x) ==
    IF seq = <<>> THEN <<x>>
    ELSE IF x < Head(seq) THEN <<x>> \o seq
    ELSE <<Head(seq)>> \o Insert(Tail(seq), x)

\* list.sort()
RECURSIVE SortSeq(_)
SortSeq(seq) ==
    IF seq = <<>> THEN <<>>
    ELSE Insert(SortSeq(Tail(seq)), Head(seq))

-----------------------------------------------------------------------------
(* The win scan.  Every scan operator returns                              *)
(*   [res |-> the boolean result, exc |-> a ValueError was raised,         *)
(*    store |-> self.store when the call ended].                           *)

Result(r, e, st) == [res |-> r, exc |-> e, store |-> st]

\* one step of checkH/checkV/checkDR/checkDL: the next point is appended to
\* the scratch list, then removed from the colour's list (which raises when
\* the point is not there)
RECURSIVE checkStep(_, _, _, _, _, _)
checkStep(b, st, point, colour, chain, delta) ==
    IF chain > 1 THEN
        IF b[point + delta] = colour THEN
            LET st1 == [st EXCEPT ![0] = Append(@, point + delta)]
            IN  IF ~Contains(st1[colour], point + delta)
                THEN Result(FALSE, TRUE, st1)
                ELSE checkStep(b,
                               [st1 EXCEPT ![colour] = Remove(@, point + delta)],
                               point + delta, colour, chain - 1, delta)
        ELSE Result(FALSE, FALSE, st)
    ELSE Result(TRUE, FALSE, st)

\* checkH counting the start point twice: a run of four passes for five
checkH_short(b, st, point, colour, chain) ==
    checkStep(b, st, point, colour, chain - 1, 1)

checkH(b, st, point, colour, chain) == checkStep(b, st, point, colour, chain, 1)

checkV(b, st, point, colour, chain) == checkStep(b, st, point, colour, chain, NS)

checkDR(b, st, point, colour, chain) ==
    checkStep(b, st, point, colour, chain, NS + 1)

checkDL(b, st, point, colour, chain) ==
    checkStep(b, st, point, colour, chain, NS - 1)

\* function that returns all checked points back to their colour's list
checkout(st, colour) ==
    [st EXCEPT ![colour] = SortSeq(st[colour] \o st[0]), ![0] = <<>>]

\* the scan of pass number dir from candidate start i
checkDir(dir, b, st, i, colour) ==
    CASE dir = 1 -> checkH(b, st, i, colour, ChainLen)
      [] dir = 2 -> checkV(b, st, i, colour, ChainLen)
      [] dir = 3 -> checkDR(b, st, i, colour, ChainLen)
      [] dir = 4 -> checkDL(b, st, i, colour, ChainLen)

\* "for i in self.store[colour]": Python's list iterator keeps an index into
\* the live list, so entries the scan removes are never visited; idx is the
\* 1-based position of the next entry.  The loop breaks on the first win.
RECURSIVE ScanPass(_, _, _, _, _)
ScanPass(dir, b, st, colour, idx) ==
    IF idx > Len(st[colour]) THEN Result(FALSE, FALSE, st)
    ELSE LET r == checkDir(dir, b, st, st[colour][idx], colour)
         IN  IF r.exc \/ r.res THEN r
             ELSE ScanPass(dir, b, r.store, colour, idx + 1)

\* checkWin from pass dir on: every pass that ends without raising is
\* followed by checkout, whether it found a win or not
RECURSIVE checkWinFrom(_, _, _, _)
checkWinFrom(dir, b, st, colour) ==
    LET r == ScanPass(dir, b, st, colour, 1)
    IN  IF r.exc THEN r
        ELSE IF r.res THEN Result(TRUE, FALSE, checkout(r.store, colour))
        ELSE IF dir = 4 THEN Result(FALSE, FALSE, checkout(r.store, colour))
        ELSE checkWinFrom(dir + 1, b, checkout(r.store, colour), colour)

checkWin(b, st, colour) == checkWinFrom(1, b, st, colour)

-----------------------------------------------------------------------------
(* Placement and the queries built on it.  play_move and is_legal return   *)
(*   [ret |-> "True" | "False" | "ValueError", board |-> ..., store |-> ...] *)

Played(r, b, st) == [ret |-> r, board |-> b, store |-> st]

\* the opening condition without its two win scans
decided_full_only(b, st) == Result(get_empty_points(b) = {}, FALSE, st)

\* the condition play_move opens with,
\*   checkWin(WHITE) or checkWin(BLACK) or get_empty_points().size == 0
\* evaluated left to right: BLACK is scanned only when WHITE has no win, on
\* the store the WHITE scan left.  The scans stand outside the try block, so
\* a ValueError they raise leaves play_move.
decided(b, st) ==
    LET w == checkWin(b, st, WHITE)
    IN  IF w.exc \/ w.res THEN w
        ELSE LET k == checkWin(b, w.store, BLACK)
             IN  IF k.exc \/ k.res THEN k
                 ELSE Result(get_empty_points(b) = {}, FALSE, k.store)

\* the rest of play_move, d being the outcome of its opening condition
place(d, b, point, color) ==
    IF d.exc THEN Played("ValueError", b, d.store)
    ELSE IF d.res THEN Played("False", b, d.store)
    ELSE IF b[point] # EMPTY THEN Played("False", b, d.store)
    ELSE Played("True",
                [b EXCEPT ![point] = color],
                [d.store EXCEPT ![color] = SortSeq(Append(@, point))])

play_move(b, st, point, color) == place(decided(b, st), b, point, color)

\* the text of the print call in play_move's except clause
BoardFullMessage == "Board is full, random move cannot be generated"

\* the try block of play_move reads a cell, writes it, appends the point to
\* a list of integers and sorts that list: for a point of the board and a
\* colour none of these raises ValueError
try_raises(b, point, color) == FALSE

\* play_move prints in its except clause only: when the opening condition
\* let the call through and the try block raised ValueError
printed(d, b, point, color) ==
    ~d.exc /\ ~d.res /\ try_raises(b, point, color)

\* setStore(store): self.store becomes the list of three lists passed in
setStore(lists) == [i \in 0 .. 2 |-> lists[i + 1]]

\* copy starts with SimpleGoBoard(self.size), whose assert turns down a size
\* that reset accepted but the constructor does not
constructible(s) == s \in Sizes

\* copy: the new board gets its own cell array (np.copy) but setStore hands
\* it the very list object self.store, so whatever the copy does to its
\* store is done to the original's store
copy(b, st) == [board |-> b, store |-> st]

\* is_legal: play_move on the copy; the original keeps its cells and ends
\* with the store the copy ends with
is_legal(b, st, point, color) ==
    IF ~constructible(size) THEN Played("AssertionError", b, st)
    ELSE LET board_copy == copy(b, st)
             legal == play_move(board_copy.board, board_copy.store, point, color)
         IN  Played(legal.ret, b, legal.store)

\* checkState: WHITE, BLACK, PASS or -1, reported by name
checkState(b, st) ==
    LET w == checkWin(b, st, WHITE)
    IN  IF w.exc THEN [ret |-> "ValueError", store |-> w.store]
        ELSE IF w.res THEN [ret |-> "WHITE", store |-> w.store]
        ELSE LET k == checkWin(b, w.store, BLACK)
             IN  IF k.exc THEN [ret |-> "ValueError", store |-> k.store]
                 ELSE IF k.res THEN [ret |-> "BLACK", store |-> k.store]
                 ELSE IF get_empty_points(b) = {}
                      THEN [ret |-> "PASS", store |-> k.store]
                 ELSE [ret |-> "ONGOING", store |-> k.store]

BoolName(x) == IF x THEN "True" ELSE "False"

-----------------------------------------------------------------------------
(* Connectivity, liberties, capture and eyes.  These read and write the    *)
(* cells only; none of them looks at self.store.                           *)

\* _neighbors: the four orthogonal neighbours, in the order of the list
neighbors(point) == <<point - 1, point + 1, point - NS, point + NS>>

\* _diag_neighbors: the four diagonal neighbours, in the order of the list
diag_neighbors(point) ==
    <<point - NS - 1, point - NS + 1, point + NS - 1, point + NS + 1>>

\* neighbors_of_color: the neighbours holding the given colour, in order
neighbors_of_color(b, point, color) ==
    SelectSeq(neighbors(point), LAMBDA nb : b[nb] = color)

\* where1d(a): the indices at which the boolean array a is set
where1d(a) == {p \in DOMAIN a : a[p]}

\* GoBoardUtil.opponent(color)
opponent(color) == WHITE + BLACK - color

\* The flood fill of _block_of keeps
\*   [marker |-> the boolean array, pointstack |-> the frontier,
\*    pushed |-> every point put on the frontier so far, in order].
\* "for nb in neighbors": an unmarked neighbour is marked and pushed
\* the loop left after its first neighbour
mark_neighbors_first(f, nbs) ==
    IF nbs = <<>> \/ f.marker[Head(nbs)] THEN f
    ELSE [marker |-> [f.marker EXCEPT ![Head(nbs)] = TRUE],
          pointstack |-> Append(f.pointstack, Head(nbs)),
          pushed |-> Append(f.pushed, Head(nbs))]

RECURSIVE mark_neighbors(_, _)
mark_neighbors(f, nbs) ==
    IF nbs = <<>> THEN f
    ELSE LET nb == Head(nbs)
         IN  mark_neighbors(
                 IF ~f.marker[nb]
                 THEN [marker |-> [f.marker EXCEPT ![nb] = TRUE],
                       pointstack |-> Append(f.pointstack, nb),
                       pushed |-> Append(f.pushed, nb)]
                 ELSE f,
                 Tail(nbs))

\* "while pointstack": pop the last point, visit its neighbours of the colour
RECURSIVE block_loop(_, _, _)
block_loop(b, color, f) ==
    IF f.pointstack = <<>> THEN f
    ELSE LET p == f.pointstack[Len(f.pointstack)]
             popped == [f EXCEPT !.pointstack = SubSeq(@, 1, Len(@) - 1)]
         IN  block_loop(b, color,
                        mark_neighbors(popped, neighbors_of_color(b, p, color)))

\* _block_of(stone), for a stone of either colour
block_of(b, stone) ==
    block_loop(b, b[stone],
               [marker |-> [p \in DOMAIN b |-> p = stone],
                pointstack |-> <<stone>>,
                pushed |-> <<stone>>])

\* _has_liberty looking at the first stone of the block only
has_liberty_first(b, block) ==
    \E stone \in where1d(block) :
        /\ \A other \in where1d(block) : stone <= other
        /\ neighbors_of_color(b, stone, EMPTY) # <<>>

\* _has_liberty(block): some stone of the block has an EMPTY neighbour
has_liberty(b, block) ==
    \E stone \in where1d(block) : neighbors_of_color(b, stone, EMPTY) # <<>>

\* _detect_and_process_capture flagging every capture, whatever its size
detect_and_process_capture_flag_all(b, nb_point) ==
    LET opp_block == block_of(b, nb_point).marker
    IN  IF ~has_liberty(b, opp_block)
        THEN [single_capture |-> <<nb_point>>,
              board |-> [p \in DOMAIN b |->
                            IF opp_block[p] THEN EMPTY ELSE b[p]]]
        ELSE [single_capture |-> <<>>, board |-> b]

\* _detect_and_process_capture(nb_point) returns
\*   [single_capture |-> <<>> for None, <<nb_point>> when it is set,
\*    board |-> the cells when the call ended]
detect_and_process_capture(b, nb_point) ==
    LET opp_block == block_of(b, nb_point).marker
    IN  IF ~has_liberty(b, opp_block)
        THEN LET captures == where1d(opp_block)
             IN  [single_capture |-> IF Cardinality(captures) = 1
                                     THEN <<nb_point>> ELSE <<>>,
                  board |-> [p \in DOMAIN b |->
                                IF p \in captures THEN EMPTY ELSE b[p]]]
        ELSE [single_capture |-> <<>>, board |-> b]

\* _is_surrounded: no neighbour is anything but BORDER or color
is_surrounded(b, point, color) ==
    \A i \in 1 .. 4 :
        LET nb_color == b[neighbors(point)[i]]
        IN  ~(nb_color # BORDER /\ nb_color # color)

\* the loop of is_eye over the diagonal neighbours ds, c holding
\* [false_count |-> ..., at_edge |-> ...]
RECURSIVE count_diagonals(_, _, _, _)
count_diagonals(b, opp_color, ds, c) ==
    IF ds = <<>> THEN c
    ELSE LET d == Head(ds)
         IN  count_diagonals(b, opp_color, Tail(ds),
                 IF b[d] = BORDER THEN [c EXCEPT !.at_edge = 1]
                 ELSE IF b[d] = opp_color
                      THEN [c EXCEPT !.false_count = @ + 1]
                 ELSE c)

\* is_eye with the same tolerance at the edge as in the centre
is_eye_no_edge(b, point, color) ==
    IF ~is_surrounded(b, point, color) THEN FALSE
    ELSE count_diagonals(b, opponent(color), diag_neighbors(point),
                         [false_count |-> 0, at_edge |-> 0]).false_count <= 1

is_eye(b, point, color) ==
    IF ~is_surrounded(b, point, color) THEN FALSE
    ELSE LET c == count_diagonals(b, opponent(color), diag_neighbors(point),
                                  [false_count |-> 0, at_edge |-> 0])
         IN  c.false_count <= 1 - c.at_edge

-----------------------------------------------------------------------------
(* The points a caller addresses.  On the smallest board every cell and    *)
(* the border cells between them; on larger boards one full line of a scan *)
(* direction together with the border cell in front of it, or the corner   *)
(* block of two rows and three columns, where runs of all four directions  *)
(* cross.                                                                  *)

Line(s, row, col, dr, dc) ==
    {pt(s, row + k * dr, col + k * dc) : k \in
        {j \in 0 .. s - 1 : /\ row + j * dr \in 1 .. s
                            /\ col + j * dc \in 1 .. s}}

FirstRow(s) == Line(s, 1, 1, 0, 1) \cup {pt(s, 1, 0)}

CornerBlock(s) == {pt(s, row, col) : row \in 1 .. 2, col \in 1 .. 3}

\* one line of each scan direction (the first row, the first column and the
\* two main diagonals) and the corner block
Lines(s) ==
    { FirstRow(s),
      Line(s, 1, 1, 1, 0) \cup {pt(s, 0, 1)},
      Line(s, 1, 1, 1, 1) \cup {pt(s, 0, 0)},
      Line(s, 1, s, 1, -1) \cup {pt(s, 0, s + 1)},
      CornerBlock(s) }

WholeBoard(s) == pt(s, 1, 0) .. pt(s, s, s)

PointSets(s) == IF s = MinSize THEN {WholeBoard(s)} ELSE Lines(s)

\* games with legality queries are played on the smallest board and on the
\* first row of the smallest board a five-run fits on
LegalSizes == {MinSize, ChainLen}

LegalPointSets(s) == IF s = MinSize THEN {WholeBoard(s)} ELSE {FirstRow(s)}

\* the sizes reset is called with when every public method is in play: the
\* smallest the constructor accepts and the one below it
AnySizes == MinSize - 1 .. MinSize

\* the lists a caller hands to setStore: empty, or one point
ShortLists == {<<>>} \cup {<<p>> : p \in pts}

StoreLen(st) == Len(st[0]) + Len(st[BLACK]) + Len(st[WHITE])

Stones(b) == {p \in DOMAIN b : b[p] \in Colors}

\* entries of the lists beyond one per stone on the board
Drift(b, st) == StoreLen(st) - Cardinality(Stones(b))

Bounded == StoreLen(store) <= MaxStore /\ Drift(board, store) <= MaxDrift

\* the three lists hold no more than MaxDrift entries together
Small == StoreLen(store) <= MaxDrift

-----------------------------------------------------------------------------
(* The state machine. *)

\* __init__(size) / reset(size)
reset(s, P) ==
    /\ size' = s
    /\ board' = InitialBoard(s)
    /\ store' = EmptyStore
    /\ current_player' = BLACK
    /\ ko_recapture' = "None"
    /\ pts' = P
    /\ op' = "reset"
    /\ ret' = "None"
    /\ out' = ""

Fresh(s, P) ==
    /\ size = s
    /\ board = InitialBoard(s)
    /\ store = EmptyStore
    /\ current_player = BLACK
    /\ ko_recapture = "None"
    /\ pts = P
    /\ op = "reset"
    /\ ret = "None"
    /\ out = ""

\* SimpleGoBoard(size) for a game in which legality is never queried
InitPlay == \E s \in Sizes : \E P \in PointSets(s) : Fresh(s, P)

\* SimpleGoBoard(size) for a game with legality queries
InitLegal == \E s \in LegalSizes : \E P \in LegalPointSets(s) : Fresh(s, P)

\* the board is cleared for another game of the same size
Reset == reset(size, pts)

\* play_move(point, color); the opening condition does not depend on the
\* arguments and is evaluated once for all of them
PlayMove ==
    \E d \in {decided(board, store)} :
        \E point \in pts, color \in Colors :
            LET r == place(d, board, point, color)
            IN  /\ board' = r.board
                /\ store' = r.store
                /\ op' = "play_move"
                /\ ret' = r.ret
                /\ out' = IF printed(d, board, point, color)
                          THEN BoardFullMessage ELSE ""
                /\ UNCHANGED <<size, pts, current_player, ko_recapture>>

\* is_legal(point, color): play_move on copy(), whose store is self.store
IsLegal ==
    \E board_copy \in {copy(board, store)} :
    \E d \in {decided(board_copy.board, board_copy.store)} :
        \E point \in pts, color \in Colors :
            LET legal == IF ~constructible(size)
                         THEN Played("AssertionError", board, store)
                         ELSE place(d, board_copy.board, point, color)
            IN  /\ board' = board
                /\ store' = legal.store
                /\ op' = "is_legal"
                /\ ret' = legal.ret
                /\ out' = IF /\ constructible(size)
                             /\ printed(d, board_copy.board, point, color)
                          THEN BoardFullMessage ELSE ""
                /\ UNCHANGED <<size, pts, current_player, ko_recapture>>

CheckWin ==
    \E colour \in Colors :
        LET r == checkWin(board, store, colour)
        IN  /\ store' = r.store
            /\ op' = "checkWin"
            /\ ret' = IF r.exc THEN "ValueError" ELSE BoolName(r.res)
            /\ out' = ""
            /\ UNCHANGED <<size, pts, board, current_player, ko_recapture>>

CheckState ==
    LET r == checkState(board, store)
    IN  /\ store' = r.store
        /\ op' = "checkState"
        /\ ret' = r.ret
        /\ out' = ""
        /\ UNCHANGED <<size, pts, board, current_player, ko_recapture>>

\* _detect_and_process_capture(nb_point); _block_of asserts that the point
\* holds a stone before it starts the fill
Capture ==
    \E nb_point \in pts :
        /\ IF board[nb_point] \notin Colors
           THEN /\ board' = board
                /\ ret' = "AssertionError"
           ELSE LET r == detect_and_process_capture(board, nb_point)
                IN  /\ board' = r.board
                    /\ ret' = IF r.single_capture = <<>>
                              THEN "None" ELSE "nb_point"
        /\ op' = "_detect_and_process_capture"
        /\ out' = ""
        /\ UNCHANGED <<size, pts, store, current_player, ko_recapture>>

\* is_eye(point, color) for a point inside the border
IsEye ==
    \E point \in pts, color \in Colors :
        /\ board[point] # BORDER
        /\ op' = "is_eye"
        /\ ret' = BoolName(is_eye(board, point, color))
        /\ out' = ""
        /\ UNCHANGED <<size, pts, board, store, current_player, ko_recapture>>

\* reset(s) on a board of any size: reset has no assert of its own
ResetTo ==
    \E s \in AnySizes : reset(s, FirstRow(s))

\* checkH(point, colour, chain) called by itself: what it moved to the
\* scratch list stays there, no checkout follows
CheckH ==
    \E point \in pts, colour \in Colors, chain \in 1 .. ChainLen :
        LET r == checkH(board, store, point, colour, chain)
        IN  /\ store' = r.store
            /\ op' = "checkH"
            /\ ret' = IF r.exc THEN "ValueError" ELSE BoolName(r.res)
            /\ out' = ""
            /\ UNCHANGED <<size, pts, board, current_player, ko_recapture>>

CheckV ==
    \E point \in pts, colour \in Colors, chain \in 1 .. ChainLen :
        LET r == checkV(board, store, point, colour, chain)
        IN  /\ store' = r.store
            /\ op' = "checkV"
            /\ ret' = IF r.exc THEN "ValueError" ELSE BoolName(r.res)
            /\ out' = ""
            /\ UNCHANGED <<size, pts, board, current_player, ko_recapture>>

CheckDR ==
    \E point \in pts, colour \in Colors, chain \in 1 .. ChainLen :
        LET r == checkDR(board, store, point, colour, chain)
        IN  /\ store' = r.store
            /\ op' = "checkDR"
            /\ ret' = IF r.exc THEN "ValueError" ELSE BoolName(r.res)
            /\ out' = ""
            /\ UNCHANGED <<size, pts, board, current_player, ko_recapture>>

CheckDL ==
    \E point \in pts, colour \in Colors, chain \in 1 .. ChainLen :
        LET r == checkDL(board, store, point, colour, chain)
        IN  /\ store' = r.store
            /\ op' = "checkDL"
            /\ ret' = IF r.exc THEN "ValueError" ELSE BoolName(r.res)
            /\ out' = ""
            /\ UNCHANGED <<size, pts, board, current_player, ko_recapture>>

\* checkout(colour) called by itself
Checkout ==
    \E colour \in Colors :
        /\ store' = checkout(store, colour)
        /\ op' = "checkout"
        /\ ret' = "None"
        /\ out' = ""
        /\ UNCHANGED <<size, pts, board, current_player, ko_recapture>>

\* setStore(store): the board takes the three lists the caller hands it
SetStore ==
    \E scratch \in ShortLists, blacks \in ShortLists, whites \in ShortLists :
        /\ store' = setStore(<<scratch, blacks, whites>>)
        /\ op' = "setStore"
        /\ ret' = "None"
        /\ out' = ""
        /\ UNCHANGED <<size, pts, board, current_player, ko_recapture>>

\* games with legality queries: the calls of the placement path
NextLegal ==
    \/ Reset
    \/ Bounded /\ PlayMove
    \/ Bounded /\ IsLegal
    \/ Bounded /\ CheckWin
    \/ Bounded /\ CheckState

SpecLegal == InitLegal /\ [][NextLegal]_vars

\* games in which legality is never queried: only play_move changes the board
NextPlay ==
    \/ Reset
    \/ PlayMove
    \/ CheckWin
    \/ CheckState

SpecPlay == InitPlay /\ [][NextPlay]_vars

\* every public method that changes the board, called in any order, and the
\* capture and eye operations, on the first row of the smallest boards
Init == Fresh(MinSize, FirstRow(MinSize))

Next ==
    \/ ResetTo
    \/ SetStore
    \/ Small /\ PlayMove
    \/ Small /\ IsLegal
    \/ Small /\ CheckWin
    \/ Small /\ CheckState
    \/ Small /\ CheckH
    \/ Small /\ CheckV
    \/ Small /\ CheckDR
    \/ Small /\ CheckDL
    \/ Small /\ Checkout
    \/ Small /\ Capture
    \/ Small /\ IsEye

Spec == Init /\ [][Next]_vars

\* games with captures and eye queries (and no legality queries) are played
\* on the two smallest boards, every cell of which the caller may address
GoSizes == {MinSize, MinSize + 1}

InitGo == \E s \in GoSizes : Fresh(s, WholeBoard(s))

NextGo ==
    \/ Reset
    \/ Bounded /\ PlayMove
    \/ Bounded /\ Capture
    \/ Bounded /\ IsEye

SpecGo == InitGo /\ [][NextGo]_vars

\* the first two rows of the board
TwoRows(s) == {pt(s, row, col) : row \in 1 .. 2, col \in 1 .. s}

\* BLACK has built on the first row only and WHITE on the second only (up to
\* exchanging the colours, the only games on two rows of five in which each
\* row can still fill with one colour), each from the left end of its row on
Duel(b) ==
    \A p \in DOMAIN b :
        b[p] \in Colors =>
            /\ b[p] = IF p < row_start(size, 2) THEN BLACK ELSE WHITE
            /\ b[p - 1] \in {BORDER, b[p]}

\* the lists hold fewer than MaxDrift entries without a stone
Drifting == Drift(board, store) < MaxDrift

\* SimpleGoBoard(5) for a game on its first two rows
InitDuel == Fresh(ChainLen, TwoRows(ChainLen))

NextDuel ==
    \/ Drifting /\ PlayMove /\ Duel(board')
    \/ Drifting /\ IsLegal

SpecDuel == InitDuel /\ [][NextDuel]_vars

-----------------------------------------------------------------------------
(* What the cells say, read off the board alone. *)

ColourPoints(b, c) == {p \in DOMAIN b : b[p] = c}

Entries(seq) == {seq[i] : i \in 1 .. Len(seq)}

StrictlyAscending(seq) == \A i \in 1 .. Len(seq) - 1 : seq[i] < seq[i + 1]

\* the list of colour c holds exactly the points of that colour, ascending
Indexed(b, st, c) == StrictlyAscending(st[c]) /\ Entries(st[c]) = ColourPoints(b, c)

\* the four scan directions: +1, +stride, +stride+1, +stride-1
Directions == {1, NS, NS + 1, NS - 1}

\* n consecutive cells of colour c along one scan direction
HasRun(b, c, n) ==
    \E p \in ColourPoints(b, c), d \in Directions :
        \A k \in 1 .. n - 1 : p + k * d \in DOMAIN b /\ b[p + k * d] = c

NoEmpty(b) == \A p \in DOMAIN b : b[p] # EMPTY

\* a five-run of either colour, or no EMPTY cell
GameDecided(b) ==
    HasRun(b, BLACK, ChainLen) \/ HasRun(b, WHITE, ChainLen) \/ NoEmpty(b)

\* row and column of a point of the padded array
RowOf(p) == p \div NS

ColOf(p) == p % NS

Abs(x) == IF x < 0 THEN -x ELSE x

Interior(b) == {p \in DOMAIN b : b[p] # BORDER}

\* two cells inside the border, one orthogonal step apart
Adjacent(p, q) ==
    Abs(RowOf(p) - RowOf(q)) + Abs(ColOf(p) - ColOf(q)) = 1

\* the cells of colour c one step from a member of S, added until none is left
RECURSIVE Grow(_, _, _)
Grow(b, c, S) ==
    LET T == S \cup {q \in ColourPoints(b, c) : \E p \in S : Adjacent(p, q)}
    IN  IF T = S THEN S ELSE Grow(b, c, T)

\* the stones connected to seed through stones of its colour
Group(b, seed) == Grow(b, b[seed], {seed})

\* some member of G has an EMPTY cell one step away
GroupHasLiberty(b, G) ==
    \E m \in G, q \in get_empty_points(b) : Adjacent(m, q)

NoDuplicates(seq) ==
    \A i, j \in 1 .. Len(seq) : seq[i] = seq[j] => i = j

\* four stones of one colour in a square with p as its top left corner
Square(b, p) ==
    /\ b[p] \in Colors
    /\ \A q \in {p + 1, p + NS, p + NS + 1} : q \in DOMAIN b /\ b[q] = b[p]

-----------------------------------------------------------------------------
(* The claims. *)

\* C1: is_legal(point, color) never mutates the board it is called on: the
\* cells, both colour lists and the scratch list are the same before and
\* after the call.
C1_IsLegalLeavesBoard ==
    [][op' = "is_legal" => (board' = board /\ store' = store)]_vars

\* C2: in every state reachable by play_move, is_legal, checkWin and
\* checkState calls, the BLACK and the WHITE list hold exactly the indices
\* of the cells of that colour, without duplicates, ascending.
C2_ListsMatchCells ==
    \A c \in Colors : Indexed(board, store, c)

\* C3: whenever play_move returns False, the cells, both colour lists and
\* the scratch list are exactly what they were before the call.
C3_RejectionLeavesBoard ==
    [][(op' = "play_move" /\ ret' = "False")
          => (board' = board /\ store' = store)]_vars

\* C4: play_move, is_legal, checkWin and checkState always return a result;
\* none of them ever raises (the win scan never removes an absent point).
C4_NoCallRaises ==
    ret # "ValueError"

\* C5: on every board reached by play_move calls alone, checkWin(color)
\* returns normally and is true iff the cells hold five or more consecutive
\* stones of that colour along a scan direction (false for a longest run of
\* four, true for a run of six).
C5_WinIffFiveRun ==
    \A c \in Colors :
        LET r == checkWin(board, store, c)
        IN  ~r.exc /\ (r.res <=> HasRun(board, c, ChainLen))

\* C5, its case: checkWin has just returned True on a board that holds a run
\* of six, and a run of six can only come from closing a gap in the line.
C5_SixRunWins ==
    /\ op = "checkWin"
    /\ ret = "True"
    /\ \E c \in Colors : HasRun(board, c, ChainLen + 1)

\* C6: after any call to checkWin or checkState that returns, the scratch
\* list is empty, both colour lists are what they were before the call, in
\* the same order, and the cells are unchanged.
C6_ScanRestoresLists ==
    [][(op' \in {"checkWin", "checkState"} /\ ret' # "ValueError")
          => (store'[0] = <<>> /\ store' = store /\ board' = board)]_vars

\* C7: checkState returns WHITE_WINS if checkWin(WHITE) holds, otherwise
\* BLACK_WINS if checkWin(BLACK) holds, otherwise BOARD_FULL_NO_WINNER if no
\* cell is EMPTY, otherwise ONGOING; a board without stones is ONGOING and a
\* filled board without a five-run of either colour is BOARD_FULL_NO_WINNER.
C7_CheckStateResult ==
    [][op' = "checkState" =>
        LET w == checkWin(board, store, WHITE)
            k == checkWin(board, w.store, BLACK)
            white == ~w.exc /\ w.res
            black == ~w.exc /\ ~w.res /\ ~k.exc /\ k.res
            neither == ~w.exc /\ ~w.res /\ ~k.exc /\ ~k.res
        IN  /\ white => ret' = "WHITE"
            /\ black => ret' = "BLACK"
            /\ (neither /\ NoEmpty(board)) => ret' = "PASS"
            /\ (neither /\ ~NoEmpty(board)) => ret' = "ONGOING"
            /\ Stones(board) = {} => ret' = "ONGOING"
            /\ ( /\ NoEmpty(board)
                 /\ ~HasRun(board, WHITE, ChainLen)
                 /\ ~HasRun(board, BLACK, ChainLen) ) => ret' = "PASS"
      ]_vars

\* C8: once a colour has a five-run on the board or no cell is EMPTY, every
\* later play_move returns False, and under play_move and is_legal calls the
\* cells never change again and checkState keeps its result.
C8_DecidedIsAbsorbing ==
    [][(op' \in {"play_move", "is_legal"} /\ GameDecided(board))
          => /\ board' = board
             /\ op' = "play_move" => ret' = "False"
             /\ checkState(board', store').ret = checkState(board, store).ret
      ]_vars

\* C9: in every reachable state, for every point and colour, is_legal
\* returns True iff the play_move issued right after it on the same board
\* returns True.
C9_LegalMeansPlayable ==
    \A point \in pts, color \in Colors :
        LET legal == is_legal(board, store, point, color)
            played == play_move(legal.board, legal.store, point, color)
        IN  (legal.ret = "True") <=> (played.ret = "True")

\* C10: a freshly constructed board of any valid size has
\* size*size + 3*(size+1) cells, EMPTY exactly at the positions
\* row*(size+1)+1 .. row*(size+1)+size for row in 1 .. size and BORDER
\* everywhere else, and three empty lists.
C10_FreshBoard ==
    op = "reset" =>
        /\ size \in MinSize .. MaxSize
        /\ DOMAIN board = 0 .. size * size + 3 * (size + 1) - 1
        /\ \A p \in DOMAIN board :
              board[p] = IF \E row \in 1 .. size :
                               p \in row * (size + 1) + 1 .. row * (size + 1) + size
                         THEN EMPTY ELSE BORDER
        /\ Cardinality(get_empty_points(board)) = size * size
        /\ \A i \in 0 .. 2 : store[i] = <<>>

\* C10, its case: a board larger than the smallest has just been constructed
\* (or put back to the start state by reset).
C10_BoardReset ==
    /\ op = "reset"
    /\ size > MinSize
    /\ board = InitialBoard(size)
    /\ Cardinality(get_empty_points(board)) = size * size

\* C11: for every seed holding a stone, _block_of ends with an empty
\* frontier after pushing no position twice, and marks exactly the stones
\* reachable from the seed through orthogonal steps over its colour: the
\* marked set holds the seed, only cells of the seed's colour, every
\* same-colour orthogonal neighbour of a member, and nothing unreachable.
C11_BlockIsGroup ==
    \A seed \in Stones(board) :
        LET f == block_of(board, seed)
            marked == where1d(f.marker)
        IN  /\ f.pointstack = <<>>
            /\ NoDuplicates(f.pushed)
            /\ Len(f.pushed) <= Cardinality(DOMAIN board)
            /\ Entries(f.pushed) = marked
            /\ seed \in marked
            /\ \A m \in marked : board[m] = board[seed]
            /\ \A m \in marked, q \in Interior(board) :
                  (Adjacent(m, q) /\ board[q] = board[seed]) => q \in marked
            /\ marked \subseteq Group(board, seed)

\* C11, its case: the fill has run on a board with four stones of one colour
\* in a square, whose far corner is reached along two paths.
C11_SquareFilled ==
    /\ op = "_detect_and_process_capture"
    /\ ret = "None"
    /\ \E p \in Stones(board) : Square(board, p)

\* C12: _detect_and_process_capture(p) captures exactly the liberty-less
\* group: if no member of the group of p has an orthogonally adjacent EMPTY
\* cell, every cell of the group becomes EMPTY and every other cell keeps
\* its value; if some member has one, no cell changes.
C12_CaptureExactlyGroup ==
    \A p \in Stones(board) :
        LET r == detect_and_process_capture(board, p)
            G == Group(board, p)
        IN  IF GroupHasLiberty(board, G)
            THEN r.board = board
            ELSE /\ DOMAIN r.board = DOMAIN board
                 /\ \A q \in DOMAIN board :
                       r.board[q] = IF q \in G THEN EMPTY ELSE board[q]

\* C12, its case: a capture has just emptied the single stone it was called
\* on.
C12_StoneCaptured ==
    /\ op = "_detect_and_process_capture"
    /\ ret = "nb_point"
    /\ \E p \in get_empty_points(board) : Contains(store[BLACK] \o store[WHITE], p)

\* C14: starting from a board whose colour lists exactly match its cells,
\* after _detect_and_process_capture each list still holds exactly the
\* positions whose cell holds that colour (no captured position remains).
C14_CaptureKeepsListsInStep ==
    [][(op' = "_detect_and_process_capture"
          /\ \A c \in Colors : Indexed(board, store, c))
          => \A c \in Colors : Indexed(board', store', c)]_vars

\* C15: the result of _detect_and_process_capture(p) is p iff the group of p
\* had no liberty and was a single stone; it is None when nothing is captured
\* and when two or more stones are captured.
C15_SingleCaptureFlag ==
    \A p \in Stones(board) :
        LET r == detect_and_process_capture(board, p)
            G == Group(board, p)
        IN  /\ r.single_capture \in {<<>>, <<p>>}
            /\ r.single_capture = <<p>>
                  <=> (~GroupHasLiberty(board, G) /\ G = {p})

\* C15, its case: a capture has just emptied two adjacent cells of one
\* colour's stones and returned None.
C15_PairCaptured ==
    /\ op = "_detect_and_process_capture"
    /\ ret = "None"
    /\ \E c \in Colors : \E p, q \in Entries(store[c]) :
          Adjacent(p, q) /\ board[p] = EMPTY /\ board[q] = EMPTY

\* C13: a successful play_move(point, color) changes exactly one cell, the
\* target, from EMPTY to color and inserts point into store[color]; every
\* other cell, the other colour's list, the scratch list, current_player and
\* ko_recapture are unchanged, so no stone is ever removed by a placement.
C13_PlacementFrame ==
    [][(op' = "play_move" /\ ret' = "True") =>
        /\ \E point \in pts, color \in Colors :
              /\ board[point] = EMPTY
              /\ board' = [board EXCEPT ![point] = color]
              /\ store'[color] = SortSeq(Append(store[color], point))
              /\ store'[opponent(color)] = store[opponent(color)]
        /\ store'[0] = store[0]
        /\ current_player' = current_player
        /\ ko_recapture' = ko_recapture
        /\ Stones(board) \subseteq Stones(board')
      ]_vars

\* the cell dr rows and dc columns away from an interior point
CellAt(b, p, dr, dc) == b[pt(size, RowOf(p) + dr, ColOf(p) + dc)]

OrthogonalSteps == {<<0, -1>>, <<0, 1>>, <<-1, 0>>, <<1, 0>>}

DiagonalSteps == {<<-1, -1>>, <<-1, 1>>, <<1, -1>>, <<1, 1>>}

\* what is_eye is to decide, read off the cells around the point
SimpleEye(b, p, color) ==
    LET opposing == {d \in DiagonalSteps :
                        CellAt(b, p, d[1], d[2]) \in Colors \ {color}}
        at_border == \E d \in DiagonalSteps : CellAt(b, p, d[1], d[2]) = BORDER
    IN  /\ \A d \in OrthogonalSteps : CellAt(b, p, d[1], d[2]) \in {BORDER, color}
        /\ IF at_border THEN Cardinality(opposing) = 0
           ELSE Cardinality(opposing) <= 1

\* C16: for every board, interior point and colour, is_eye(point, color) is
\* true iff every orthogonal neighbour of point is BORDER or color and the
\* number of opponent-coloured diagonal neighbours is at most 1 when no
\* diagonal neighbour is BORDER and 0 when one is; the call changes nothing.
C16_EyeRule ==
    /\ [](\A point \in Interior(board), color \in Colors :
            is_eye(board, point, color) <=> SimpleEye(board, point, color))
    /\ [][op' = "is_eye" =>
            /\ board' = board
            /\ store' = store
            /\ current_player' = current_player
            /\ ko_recapture' = ko_recapture
            /\ \E point \in Interior(board), color \in Colors :
                  ret' = BoolName(SimpleEye(board, point, color))]_vars

\* C16, its case: is_eye has just answered True on a board whose centre
\* point has its four orthogonal neighbours of one colour and exactly one
\* diagonal neighbour of the other.
C16_CentreEyeOneFalse ==
    /\ op = "is_eye"
    /\ ret = "True"
    /\ \E p \in Interior(board), color \in Colors :
          /\ \A d \in OrthogonalSteps : CellAt(board, p, d[1], d[2]) = color
          /\ Cardinality({d \in DiagonalSteps :
                 CellAt(board, p, d[1], d[2]) = opponent(color)}) = 1
          /\ is_eye(board, p, color)

\* C17: in every state reachable by play_move, is_legal, checkWin,
\* checkState and capture calls, every cell that was BORDER on the fresh
\* board is still BORDER, play_move and is_legal on a BORDER point return
\* False, and no BORDER position is in the BLACK or the WHITE list.
C17_BorderIsPermanent ==
    /\ \A p \in DOMAIN board :
          InitialBoard(size)[p] = BORDER => board[p] = BORDER
    /\ \A c \in Colors : \A p \in Entries(store[c]) : board[p] # BORDER
    /\ \A point \in pts, color \in Colors :
          board[point] = BORDER =>
              /\ play_move(board, store, point, color).ret = "False"
              /\ is_legal(board, store, point, color).ret = "False"

\* C18: in every state reachable from a fresh board by play_move and
\* is_legal calls, with either colour passed in any order, the cells never
\* hold a run of five or more BLACK stones and a run of five or more WHITE
\* stones at the same time.
C18_AtMostOneWinner ==
    ~(HasRun(board, BLACK, ChainLen) /\ HasRun(board, WHITE, ChainLen))

\* C18, its case: one colour has its five-run, the other has four stones in
\* its row, and a play_move has just been turned down.
C18_SecondRunRefused ==
    /\ op = "play_move"
    /\ ret = "False"
    /\ \E c \in Colors :
          /\ HasRun(board, c, ChainLen)
          /\ Cardinality(ColourPoints(board, opponent(c))) = ChainLen - 1

\* checkState() reports a finished game
GameOver(b, st) == checkState(b, st).ret \in {"WHITE", "BLACK", "PASS"}

\* C19: each successful play_move reduces the number of EMPTY cells by
\* exactly one and no play_move, is_legal, checkWin or checkState call ever
\* increases it, so at most size*size play_move calls succeed; and moves
\* attempted on EMPTY points bring the game to a state in which checkState()
\* is not ONGOING: as long as checkState() does not report a finished game,
\* a play_move on an EMPTY point succeeds.
C19_GameIsBounded ==
    /\ [](\/ GameOver(board, store)
          \/ \E d \in {decided(board, store)} :
                \A point \in pts \cap get_empty_points(board), color \in Colors :
                    place(d, board, point, color).ret = "True")
    /\ [][op' \in {"play_move", "is_legal", "checkWin", "checkState"} =>
            /\ get_empty_points(board') \subseteq get_empty_points(board)
            /\ (op' = "play_move" /\ ret' = "True") =>
                  Cardinality(get_empty_points(board'))
                      = Cardinality(get_empty_points(board)) - 1
            /\ Cardinality(Stones(board')) <= size * size]_vars

\* C20: a play_move attempted when the board has no EMPTY point returns
\* False and emits the board-full diagnostic; a play_move rejected for any
\* other reason (occupied target, game already won) emits nothing.
C20_BoardFullDiagnostic ==
    [][op' = "play_move" =>
        /\ NoEmpty(board) => (ret' = "False" /\ out' = BoardFullMessage)
        /\ (ret' = "False" /\ ~NoEmpty(board)) => out' = ""
      ]_vars

====
